---- MODULE Spec2Model ----
(***************************************************************************)
(* A model of the redis GCRA rate limiter (package rate_limiter).          *)
(*                                                                         *)
(* Time is counted in units of 5 ms: it is the coarsest unit in which the  *)
(* two-fraction-digit rendering of a period (FormatPeriod) and the         *)
(* emission intervals of the limits below are whole numbers.               *)
(*                                                                         *)
(* The Lua scripts allowN and allowAtMost are not part of the sources at   *)
(* hand; ScriptAllowN and ScriptAllowAtMost follow the Decision Engine of  *)
(* the specification (section 4.1).                                        *)
(***************************************************************************)
EXTENDS Integers, Sequences, FiniteSets, TLC

VARIABLES
    now,        \* the store's clock, in units of 5 ms
    store,      \* store key -> stored TAT (units), Nil when the key is absent
    cfg,        \* the Limiter built by NewLimiter: limit, customLimits, prefix
    last,       \* the most recent call and what it returned
    justReset,  \* whether the latest call on the watched key was a successful Reset
    streak,     \* length of the run of same-instant Allow calls on the watched key from no state
    admitted,   \* time -> events AllowN admitted on the watched key at that time
    pure,       \* only AllowN ever touched the watched key
    calls,      \* process -> the call it has issued and the store has not yet run
    serial      \* the transactions the store has run, in the order it ran them

vars == <<now, store, cfg, last, justReset, streak, admitted, pure, calls, serial>>

----------------------------------------------------------------------------
\* Bounds of the model.

MaxNow == 4
MaxN == 2
MaxOps == 2

----------------------------------------------------------------------------
\* Units.

Second == 200
UnitsPerCs == 2
\* A time.Duration is written in microseconds (every duration of the model is a
\* multiple of 5 ms); the sentinel time.Duration(-1) stays -1.
DurationPerUnit == 5000

Nil == -1

Max(a, b) == IF a >= b THEN a ELSE b
Min(a, b) == IF a <= b THEN a ELSE b

----------------------------------------------------------------------------
\* Limits.

redisPrefix == "rl:"

Keys == {"a", "b"}
Prefixes == {redisPrefix, "x:"}
StoreKeys == {p \o k : p \in Prefixes, k \in Keys}

ZeroLimit == [Rate |-> 0, Burst |-> 0, Period |-> 0]

defaultLimits == [Burst |-> 1, Rate |-> 1, Period |-> Second]

\* 1 req / 20 ms (burst 2), 1 req / 15 ms (burst 2), 1 req / 5 ms (burst 1),
\* 2 req / 10 ms (burst 3)
L20 == [Rate |-> 1, Burst |-> 2, Period |-> 4]
L15 == [Rate |-> 1, Burst |-> 2, Period |-> 3]
L5 == [Rate |-> 1, Burst |-> 1, Period |-> 1]
L10 == [Rate |-> 2, Burst |-> 3, Period |-> 2]
\* 1 req / 25 ms (burst 1)
L25 == [Rate |-> 1, Burst |-> 1, Period |-> 5]

\* What WithRateLimit may have set (defaultLimits when the option is absent).
RateLimitOptions == {defaultLimits, L20, L15, L5, L25, ZeroLimit}

\* What WithCustomLimits may have set (the empty map when the option is absent).
CustomLimitsOptions ==
    {<<>>, [k \in {"a"} |-> L10], [k \in {"a"} |-> ZeroLimit], [k \in {"b"} |-> L10]}

\* The limits callers pass explicitly.
ExplicitLimits == {L10, L20}

\* The key the callers use; "b" is a key nobody calls with.
Watched == "a"
Called == {Watched}

NewLimiter(limit, customLimits, prefix) ==
    [limit |-> limit, customLimits |-> customLimits, prefix |-> prefix]

\* The limiters considered: every default limit, and every override map and
\* prefix.
Constructions ==
    {NewLimiter(l, <<>>, redisPrefix) : l \in RateLimitOptions}
    \cup {NewLimiter(L20, c, p) : c \in CustomLimitsOptions, p \in Prefixes}

----------------------------------------------------------------------------
\* Marshalling.

\* strconv.FormatFloat(Period.Seconds(), 'f', 2, 32): the period as a float32,
\* rounded to hundredths of a second.  A period of a whole number of
\* centiseconds is rendered exactly; one that ends in 5 ms is a decimal tie
\* that the float32 nearest to it decides: float32(0.005) and float32(0.015)
\* lie below the tie, the others of the model's range above.
Float32Below(p) == p \in {1, 3}

FormatPeriod(p) ==
    IF p % 2 = 0 THEN p \div 2
    ELSE IF Float32Below(p) THEN (p - 1) \div 2
    ELSE (p + 1) \div 2

Values(limit, n) ==
    [burst |-> limit.Burst,
     rate |-> limit.Rate,
     period |-> FormatPeriod(limit.Period),
     n |-> n]

StoreKey(key) == redisPrefix \o key

----------------------------------------------------------------------------
\* The Decision Engine (specification, section 4.1).

EmissionInterval(v) == (v.period * UnitsPerCs) \div v.rate

\* The engine's contract on its inputs; outside of it the emission interval
\* is undefined or zero and the transaction fails on the division.
Computable(v) == v.rate >= 1 /\ v.period >= 1

NoWait == -Second

NoReply == <<0, 0, 0, 0>>

\* A count of what is left that forgets the events of this decision.
RemainingBefore(v, finalTat, t) ==
    LET E == EmissionInterval(v)
        dvt == E * v.burst
    IN Max(0, Min(v.burst, (dvt - (finalTat - E * v.n - t)) \div E))

Remaining(v, finalTat, t) ==
    LET E == EmissionInterval(v)
        dvt == E * v.burst
    IN Max(0, Min(v.burst, (dvt - (finalTat - t)) \div E))

\* Step 5: n events are schedulable at time t.
AdmissionTest(tat, v, n, t) ==
    LET E == EmissionInterval(v)
        tat0 == IF tat = Nil THEN t ELSE tat
    IN Max(tat0, t) + E * n - E * v.burst <= t

ScriptAllowN(tat, v, t) ==
    IF ~Computable(v)
    THEN [err |-> "script", reply |-> NoReply, tat |-> tat]
    ELSE
      LET E == EmissionInterval(v)
          dvt == E * v.burst
          tat0 == IF tat = Nil THEN t ELSE tat
          newTat == Max(tat0, t) + E * v.n
          allowAt == newTat - dvt
      IN IF AdmissionTest(tat, v, v.n, t)
         THEN [err |-> "nil",
               reply |-> <<v.n, Remaining(v, newTat, t), NoWait, Max(newTat - t, 0)>>,
               tat |-> newTat]
         ELSE [err |-> "nil",
               reply |-> <<0, Remaining(v, tat0, t), allowAt - t, Max(tat0 - t, 0)>>,
               tat |-> tat]

ScriptAllowAtMost(tat, v, t) ==
    IF ~Computable(v)
    THEN [err |-> "script", reply |-> NoReply, tat |-> tat]
    ELSE
      LET E == EmissionInterval(v)
          dvt == E * v.burst
          tat0 == IF tat = Nil THEN t ELSE tat
          base == Max(tat0, t)
          k == Max(0, Min(v.n, (t + dvt - base) \div E))
          newTat == base + E * k
      IN IF k >= 1
         THEN [err |-> "nil",
               reply |-> <<k, Remaining(v, newTat, t), NoWait, Max(newTat - t, 0)>>,
               tat |-> newTat]
         ELSE [err |-> "nil",
               reply |-> <<0, Remaining(v, tat0, t), base + E - dvt - t, Max(tat0 - t, 0)>>,
               tat |-> tat]

Exec(script, tat, v, t) ==
    IF script = "allowN" THEN ScriptAllowN(tat, v, t) ELSE ScriptAllowAtMost(tat, v, t)

----------------------------------------------------------------------------
\* Results.

\* A conversion without the case of the sentinel.
durPlain(f) == f * DurationPerUnit

dur(f) == IF f = -Second THEN -1 ELSE f * DurationPerUnit

NilResult ==
    [Limit |-> ZeroLimit, Allowed |-> 0, Remaining |-> 0, RetryAfter |-> 0, ResetAfter |-> 0]

\* A mapping that takes the fields of the reply in the wrong order.
ResultSwapped(limit, result) ==
    [Limit |-> limit,
     Allowed |-> result[2],
     Remaining |-> result[1],
     RetryAfter |-> dur(result[3]),
     ResetAfter |-> dur(result[4])]

\* A mapping that reports the time to full replenishment as the wait.
ResultResetAsRetry(limit, result) ==
    [Limit |-> limit,
     Allowed |-> result[1],
     Remaining |-> result[2],
     RetryAfter |-> dur(result[4]),
     ResetAfter |-> dur(result[4])]

Result(limit, result) ==
    [Limit |-> limit,
     Allowed |-> result[1],
     Remaining |-> result[2],
     RetryAfter |-> dur(result[3]),
     ResetAfter |-> dur(result[4])]

\* A caller that reads a failed call as a denial.
ReturnDenied(limit, result, err) ==
    IF err # "nil"
    THEN [ok |-> TRUE, res |-> [NilResult EXCEPT !.Limit = limit], err |-> "nil"]
    ELSE IF Len(result) < 4
    THEN [ok |-> FALSE, res |-> NilResult, err |-> "panic"]
    ELSE [ok |-> TRUE, res |-> Result(limit, result), err |-> "nil"]

\* The return of AllowN and AllowAtMost: the error if there is one; a reply of
\* fewer than four floats stops the call at result[2] or result[3] with a
\* run-time panic; otherwise the Result of the first four floats.
Return(limit, result, err) ==
    IF err # "nil"
    THEN [ok |-> FALSE, res |-> NilResult, err |-> err]
    ELSE IF Len(result) < 4
    THEN [ok |-> FALSE, res |-> NilResult, err |-> "panic"]
    ELSE [ok |-> TRUE, res |-> Result(limit, result), err |-> "nil"]

\* A resolution that ignores the overrides.
ResolveLimitDefault(key) == cfg.limit

ResolveLimit(key) ==
    IF key \in DOMAIN cfg.customLimits THEN cfg.customLimits[key] ELSE cfg.limit

----------------------------------------------------------------------------
\* The store's answers to one call: it carries the call out and replies
\* ("ok"), or it is not reached ("conn").
Fails == {"ok", "conn"}

\* The replies that break the protocol: a fifth field, three fields only, a
\* field that is no number.
Malformed == {"long", "short", "text"}

\* The reply as it arrives from the store.
Wire(fail, reply) ==
    IF fail = "long" THEN Append(reply, 0)
    ELSE IF fail = "short" THEN SubSeq(reply, 1, 3)
    ELSE reply

\* AsFloatSlice: the error of the call or of the conversion of a field, or
\* the floats of the reply however many they are.
AsFloatSlice(fail, storeErr, reply) ==
    IF storeErr # "nil" THEN [err |-> storeErr, result |-> <<>>]
    ELSE IF fail = "text" THEN [err |-> "parse", result |-> <<>>]
    ELSE [err |-> "nil", result |-> reply]

NoCall ==
    [op |-> "none", key |-> "", n |-> 0, given |-> ZeroLimit, limit |-> ZeroLimit,
     storeKey |-> "", fail |-> "ok", before |-> [sk \in StoreKeys |-> Nil],
     values |-> Values(ZeroLimit, 0), ran |-> FALSE, storeErr |-> "nil",
     pre |-> Nil, afterReset |-> "no", pos |-> 0,
     ret |-> [ok |-> FALSE, res |-> NilResult, err |-> "nil"]]

Zeros == [t \in 0..MaxNow |-> 0]

\* The history of the watched key that a decision leaves.
Watch(op, n, fail, ret, absent) ==
    LET pos == IF op = "AllowN" /\ n = 1 /\ fail = "ok" /\ (streak >= 1 \/ absent)
               THEN streak + 1 ELSE 0
        counted == op = "AllowN" /\ pure /\ fail \notin Malformed
    IN [pos |-> pos,
        streak |-> IF pos >= 1 /\ ret.ok /\ ret.res.Allowed = 1 THEN pos ELSE 0,
        pure |-> counted,
        admitted |-> IF ~counted THEN Zeros
                     ELSE IF ret.ok THEN [admitted EXCEPT ![now] = @ + ret.res.Allowed]
                     ELSE admitted]

\* One decision: marshal, run the script once at the store, map the reply.
Decision(op, script, key, given, limit, n, fail) ==
    LET sk == StoreKey(key)
        values == Values(limit, n)
        ran == fail # "conn"
        out == Exec(script, store[sk], values, now)
        storeErr == IF fail = "conn" THEN "conn" ELSE out.err
        parsed == AsFloatSlice(fail, storeErr, Wire(fail, out.reply))
        ret == Return(limit, parsed.result, parsed.err)
        w == Watch(op, n, fail, ret, store[sk] = Nil)
    IN /\ store' = IF ran THEN [store EXCEPT ![sk] = out.tat] ELSE store
       /\ last' = [op |-> op, key |-> key, n |-> n, given |-> given, limit |-> limit,
                   storeKey |-> sk, fail |-> fail, before |-> store,
                   values |-> values, ran |-> ran, storeErr |-> storeErr,
                   pre |-> store[sk],
                   afterReset |-> IF key = Watched THEN justReset ELSE "no",
                   pos |-> IF key = Watched THEN w.pos ELSE 0,
                   ret |-> ret]
       /\ IF key = Watched
          THEN /\ justReset' = "no"
               /\ streak' = w.streak
               /\ pure' = w.pure
               /\ admitted' = w.admitted
          ELSE UNCHANGED <<justReset, streak, pure, admitted>>
       /\ UNCHANGED <<now, cfg, calls, serial>>

AllowN(key, n, fail) ==
    Decision("AllowN", "allowN", key, ZeroLimit, ResolveLimit(key), n, fail)

Allow(key, fail) == AllowN(key, 1, fail)

\* The Limiter without options: the caller passes the limit.
AllowNExplicit(key, limit, n, fail) ==
    Decision("AllowNExplicit", "allowN", key, limit, limit, n, fail)

\* An AllowAtMost that runs the all-or-nothing script.
AllowAtMostExact(key, limit, n, fail) ==
    Decision("AllowAtMost", "allowN", key, limit, limit, n, fail)

AllowAtMost(key, limit, n, fail) ==
    Decision("AllowAtMost", "allowAtMost", key, limit, limit, n, fail)

\* A deletion that empties the store.
DelFlush(key, sk, fail) ==
    LET ran == fail # "conn"
        storeErr == IF fail = "conn" THEN "conn" ELSE "nil"
    IN /\ store' = IF ran THEN [k \in StoreKeys |-> Nil] ELSE store
       /\ last' = [NoCall EXCEPT !.op = "Reset", !.key = key, !.storeKey = sk,
                                 !.fail = fail, !.before = store,
                                 !.ran = ran, !.storeErr = storeErr, !.pre = store[sk],
                                 !.ret = [ok |-> FALSE, res |-> NilResult, err |-> storeErr]]
       /\ IF key = Watched
          THEN /\ justReset' = IF storeErr # "nil" THEN "no"
                               ELSE IF store[sk] > now THEN "removed"
                               ELSE "empty"
               /\ streak' = 0
               /\ pure' = FALSE
               /\ admitted' = Zeros
          ELSE UNCHANGED <<justReset, streak, pure, admitted>>
       /\ UNCHANGED <<now, cfg, calls, serial>>

\* DEL of one store key.
Del(key, sk, fail) ==
    LET ran == fail # "conn"
        storeErr == IF fail = "conn" THEN "conn" ELSE "nil"
    IN /\ store' = IF ran THEN [store EXCEPT ![sk] = Nil] ELSE store
       /\ last' = [NoCall EXCEPT !.op = "Reset", !.key = key, !.storeKey = sk,
                                 !.fail = fail, !.before = store,
                                 !.ran = ran, !.storeErr = storeErr, !.pre = store[sk],
                                 !.ret = [ok |-> FALSE, res |-> NilResult, err |-> storeErr]]
       /\ IF key = Watched
          THEN /\ justReset' = IF storeErr # "nil" THEN "no"
                               ELSE IF store[sk] > now THEN "removed"
                               ELSE "empty"
               /\ streak' = 0
               /\ pure' = FALSE
               /\ admitted' = Zeros
          ELSE UNCHANGED <<justReset, streak, pure, admitted>>
       /\ UNCHANGED <<now, cfg, calls, serial>>

\* A Reset that deletes the key under the configured prefix.
ResetConfigured(key, fail) == Del(key, cfg.prefix \o key, fail)

Reset(key, fail) == Del(key, StoreKey(key), fail)

\* Time passes at the store.
Tick ==
    /\ now + 1 <= MaxNow
    /\ now' = now + 1
    /\ last' = NoCall
    /\ streak' = 0
    /\ UNCHANGED <<store, cfg, justReset, admitted, pure, calls, serial>>

\* The removal of a key by the store, with its trace.
Evict(sk) ==
    /\ store' = [store EXCEPT ![sk] = Nil]
    /\ last' = [NoCall EXCEPT !.op = "Expire", !.storeKey = sk,
                              !.before = store, !.pre = store[sk]]
    /\ UNCHANGED <<now, cfg, justReset, streak, admitted, pure, calls, serial>>

\* A store whose keys expire at any time.
ExpireEarly(sk) ==
    /\ store[sk] # Nil
    /\ Evict(sk)

\* The store evicts a key whose expiration has passed: not before the
\* bucket is replenished (TAT <= now).
Expire(sk) ==
    /\ store[sk] # Nil
    /\ store[sk] <= now
    /\ Evict(sk)

\* The store when the limiter is built: empty for the key the callers use;
\* the bucket that an Allow on key "b" under defaultLimits left is in it.
\* The processes that share the Limiter and the store.
Procs == {"p1", "p2"}

Idle == [op |-> "none"]

InitialStore ==
    [sk \in StoreKeys |-> IF sk = StoreKey("b") THEN Second ELSE Nil]

Init ==
    /\ now = 0
    /\ store = InitialStore
    /\ cfg \in Constructions
    /\ last = NoCall
    /\ justReset = "no"
    /\ streak = 0
    /\ admitted = Zeros
    /\ pure = TRUE
    /\ calls = [p \in Procs |-> Idle]
    /\ serial = <<>>

Next ==
    \/ \E k \in Called, f \in Fails \cup Malformed : Allow(k, f)
    \/ \E k \in Called, n \in 2..MaxN, f \in Fails : AllowN(k, n, f)
    \/ \E l \in ExplicitLimits, n \in 1..MaxN, f \in Fails :
          \E k \in Called : AllowNExplicit(k, l, n, f)
    \/ \E l \in ExplicitLimits, n \in 1..MaxN, f \in Fails :
          \E k \in Called : AllowAtMost(k, l, n, f)
    \/ \E k \in Called, f \in Malformed : AllowAtMost(k, L10, 1, f)
    \/ \E k \in Called, f \in Fails : Reset(k, f)
    \/ Tick
    \/ \E sk \in StoreKeys : Expire(sk)

Spec == Init /\ [][Next]_vars

----------------------------------------------------------------------------
\* Several processes on one key.  A call is issued by its process, which
\* marshals the arguments, and is run later by the store in one transaction;
\* between the two, other processes issue calls and the store runs them.

\* What one transaction does to the TAT of the key and what its caller gets.
Run(c, tat, t) ==
    IF c.op = "Reset"
    THEN [tat |-> Nil, ret |-> [ok |-> FALSE, res |-> NilResult, err |-> "nil"]]
    ELSE LET out == Exec(c.script, tat, c.values, t)
             parsed == AsFloatSlice("ok", out.err, Wire("ok", out.reply))
         IN [tat |-> out.tat, ret |-> Return(c.limit, parsed.result, parsed.err)]

InFlight == Cardinality({p \in Procs : calls[p] # Idle})

Issue(p, op, script, limit, n) ==
    /\ calls[p] = Idle
    /\ Len(serial) + InFlight < MaxOps
    /\ calls' = [calls EXCEPT ![p] =
                    [op |-> op, script |-> script, limit |-> limit, n |-> n,
                     values |-> Values(limit, n), seen |-> store[StoreKey(Watched)]]]
    /\ UNCHANGED <<now, store, cfg, last, justReset, streak, admitted, pure, serial>>

IssueAllowN(p, n) == Issue(p, "AllowN", "allowN", ResolveLimit(Watched), n)

IssueAllowAtMost(p, limit, n) == Issue(p, "AllowAtMost", "allowAtMost", limit, n)

IssueReset(p) == Issue(p, "Reset", "del", ZeroLimit, 0)

\* The store runs the call of p on the TAT it is given.
Commit(p, tat) ==
    LET c == calls[p]
        out == Run(c, tat, now)
    IN /\ c # Idle
       /\ store' = [store EXCEPT ![StoreKey(Watched)] = out.tat]
       /\ serial' = Append(serial, [call |-> c, t |-> now, read |-> tat, ret |-> out.ret])
       /\ calls' = [calls EXCEPT ![p] = Idle]
       /\ UNCHANGED <<now, cfg, last, justReset, streak, admitted, pure>>

\* A store that runs the call on the TAT its process saw when it issued it.
TransactStale(p) == Commit(p, calls[p].seen)

\* The transaction reads the TAT, decides and writes in one step.
Transact(p) == Commit(p, store[StoreKey(Watched)])

ConcConstructions == {NewLimiter(L10, <<>>, redisPrefix)}

InitConc ==
    /\ now = 0
    /\ store = InitialStore
    /\ cfg \in ConcConstructions
    /\ last = NoCall
    /\ justReset = "no"
    /\ streak = 0
    /\ admitted = Zeros
    /\ pure = TRUE
    /\ calls = [p \in Procs |-> Idle]
    /\ serial = <<>>

NextConc ==
    \/ \E p \in Procs, n \in 1..MaxN : IssueAllowN(p, n)
    \/ \E p \in Procs, n \in 1..MaxN : IssueAllowAtMost(p, L20, n)
    \/ \E p \in Procs : IssueReset(p)
    \/ \E p \in Procs : Transact(p)
    \/ Tick

SpecConc == InitConc /\ [][NextConc]_vars

----------------------------------------------------------------------------
\* Properties.

ValidLimit(l) == l.Rate >= 1 /\ l.Burst >= 1 /\ l.Period > 0

IsDecision == last.op \in {"AllowN", "AllowNExplicit", "AllowAtMost"}

RECURSIVE AdmittedIn(_, _)
AdmittedIn(t1, t2) == IF t1 > t2 THEN 0 ELSE admitted[t1] + AdmittedIn(t1 + 1, t2)

\* C1: as long as only AllowN calls touch a key whose limit has burst B and
\* emission interval E = period / rate, the events admitted in any window
\* [t1, t2] number at most B + floor((t2 - t1) / E); with t1 = t2, at most B
\* are admitted at one instant.
C1_ConformanceBound ==
    LET l == IF Watched \in DOMAIN cfg.customLimits
             THEN cfg.customLimits[Watched] ELSE cfg.limit
    IN (pure /\ ValidLimit(l)) =>
          \A t1 \in 0..now : \A t2 \in t1..now :
             AdmittedIn(t1, t2) <= l.Burst + ((t2 - t1) * l.Rate) \div l.Period

\* C2: AllowN(key, n) on a key with no stored state, under a limit with
\* burst >= 1, rate >= 1, period > 0 and with 1 <= n <= burst, returns
\* allowed = n and remaining = burst - n.
C2_FreshKeyAdmitted ==
    (/\ last.op = "AllowN"
     /\ last.ran
     /\ last.pre = Nil
     /\ ValidLimit(last.limit)
     /\ last.n >= 1
     /\ last.n <= last.limit.Burst)
    => (/\ last.ret.ok
        /\ last.ret.res.Allowed = last.n
        /\ last.ret.res.Remaining = last.limit.Burst - last.n)

\* C3: of burst + 1 Allow calls at one instant on a key with no stored state,
\* the k-th (k <= burst) is admitted with remaining = burst - k, and the
\* (burst + 1)-th is denied with allowed = 0, retry_after of one emission
\* interval (period / rate) and reset_after of burst emission intervals.
C3_BurstThenDeny ==
    (last.op = "AllowN" /\ last.pos >= 1 /\ ValidLimit(last.limit)) =>
       LET B == last.limit.Burst
           E == (last.limit.Period * DurationPerUnit) \div last.limit.Rate
       IN /\ last.pos <= B + 1
          /\ last.ret.ok
          /\ last.pos <= B =>
                /\ last.ret.res.Allowed = 1
                /\ last.ret.res.Remaining = B - last.pos
          /\ last.pos = B + 1 =>
                /\ last.ret.res.Allowed = 0
                /\ last.ret.res.RetryAfter > 0
                /\ last.ret.res.RetryAfter = E
                /\ last.ret.res.ResetAfter = B * E

\* C4: an AllowN that returns a Result reports allowed = n or allowed = 0,
\* and when it reports 0 the stored TAT of the key is what it was before the
\* call.
C4_AllOrNothing ==
    (last.op \in {"AllowN", "AllowNExplicit"} /\ last.ret.ok) =>
       /\ last.ret.res.Allowed \in {0, last.n}
       /\ last.ret.res.Allowed = 0 => store[last.storeKey] = last.pre

\* C4 witness: a call on a key with stored state was denied.
C4_Witness ==
    /\ last.op = "AllowN"
    /\ last.ret.ok
    /\ last.ret.res.Allowed = 0
    /\ last.pre # Nil
    /\ last.pre > now

\* C5: an AllowAtMost(key, limit, n) that returns a Result admits k in 0..n
\* events, where k events pass the admission test on the state and at the
\* time of the call (admitting k = 0 events is the denial and needs no
\* test) and no larger number up to n does; it leaves the state that
\* AllowN(key, k) would leave; and k < n when AllowN(key, n) would be denied.
C5_AllowAtMostLargest ==
    (last.op = "AllowAtMost" /\ last.ret.ok) =>
       LET k == last.ret.res.Allowed
           v == Values(last.limit, last.n)
       IN /\ k \in 0..last.n
          /\ k >= 1 => AdmissionTest(last.pre, v, k, now)
          /\ \A j \in (k + 1)..last.n : ~AdmissionTest(last.pre, v, j, now)
          /\ store[last.storeKey] =
                IF k >= 1 THEN ScriptAllowN(last.pre, Values(last.limit, k), now).tat
                ELSE last.pre
          /\ ScriptAllowN(last.pre, v, now).reply[1] = 0 => k < last.n

\* C5 witness: some, and not all, of the requested events were admitted.
C5_Witness ==
    /\ last.op = "AllowAtMost"
    /\ last.ret.ok
    /\ last.ret.res.Allowed >= 1
    /\ last.ret.res.Allowed < last.n

\* C6: an Allow that directly follows a successful Reset of its key returns
\* what Allow returns on a key that was never seen, and leaves the state it
\* leaves there.
C6_ResetThenAllowFresh ==
    (last.op = "AllowN" /\ last.n = 1 /\ last.afterReset # "no" /\ last.fail = "ok") =>
       LET fresh == ScriptAllowN(Nil, Values(last.limit, 1), now)
       IN /\ last.ret = Return(last.limit, fresh.reply, fresh.err)
          /\ store[last.storeKey] = fresh.tat

\* C6 witness: the Reset removed a bucket that was in use, and the Allow
\* after it was admitted.
C6_Witness ==
    /\ last.op = "AllowN"
    /\ last.n = 1
    /\ last.afterReset = "removed"
    /\ last.ret.ok
    /\ last.ret.res.Allowed = 1

\* C7: the limit AllowN marshals for the engine and returns in Result.Limit
\* is the explicit limit when the caller passes one, else the override
\* registered for exactly this key, else the default limit; burst, rate and
\* period all come from that one limit.
C7_OneLimitChosen ==
    (last.op \in {"AllowN", "AllowNExplicit"}) =>
       LET want == IF last.op = "AllowNExplicit" THEN last.given
                   ELSE IF \E k \in DOMAIN cfg.customLimits : k = last.key
                        THEN cfg.customLimits[last.key]
                   ELSE cfg.limit
       IN /\ last.values.burst = want.Burst
          /\ last.values.rate = want.Rate
          /\ last.values.period = FormatPeriod(want.Period)
          /\ last.ret.ok => last.ret.res.Limit = want

\* C7 witness: the override of the key was applied, not the default limit.
C7_Witness ==
    /\ last.op = "AllowN"
    /\ last.key \in DOMAIN cfg.customLimits
    /\ cfg.customLimits[last.key] # cfg.limit
    /\ last.ret.ok
    /\ last.ret.res.Limit = cfg.customLimits[last.key]

\* C8: every store access of AllowN, AllowAtMost and Reset for caller key K
\* targets the configured prefix followed by K.
C8_ConfiguredPrefix ==
    (last.op \in {"AllowN", "AllowAtMost", "Reset"}) =>
       last.storeKey = cfg.prefix \o last.key

\* C9: the engine is never run with the fields of a default or override
\* limit whose rate, burst or period is not positive.
C9_InvalidLimitRejected ==
    (last.op = "AllowN" /\ last.ran) => ValidLimit(last.limit)

\* C10: when the store call of an operation fails, the operation returns
\* that failure and no Result.
C10_FailurePropagated ==
    (last.op # "none" /\ last.storeErr # "nil") =>
       /\ ~last.ret.ok
       /\ last.ret.res = NilResult
       /\ last.ret.err = last.storeErr

\* C10 witness: the store was not reached by a decision.
C10_Witness ==
    /\ IsDecision
    /\ last.storeErr = "conn"
    /\ last.ret.err = "conn"

\* C12: a Reset that reaches the store succeeds, leaves the key without
\* persisted state whatever the state was, and leaves every other key of the
\* store as it was; on a key without state the store is unchanged.
C12_ResetUnconditional ==
    (last.op = "Reset" /\ last.fail = "ok") =>
       /\ last.ret.err = "nil"
       /\ store = [last.before EXCEPT ![redisPrefix \o last.key] = Nil]
       /\ last.before[redisPrefix \o last.key] = Nil => store = last.before

\* C12 witness: a Reset of a key without state succeeded while another key
\* held state.
C12_Witness ==
    /\ last.op = "Reset"
    /\ last.fail = "ok"
    /\ last.before[redisPrefix \o last.key] = Nil
    /\ last.ret.err = "nil"
    /\ \E sk \in StoreKeys : store[sk] # Nil

\* C13: in a Result of Allow or AllowN, RetryAfter is -1 exactly when the
\* request was admitted; when it was denied RetryAfter is allow_at - now and
\* is positive.
C13_RetryAfterSentinel ==
    (last.op \in {"AllowN", "AllowNExplicit"} /\ last.ret.ok) =>
       LET v == last.values
           E == EmissionInterval(v)
           tat0 == IF last.pre = Nil THEN now ELSE last.pre
           allowAt == Max(tat0, now) + E * last.n - E * v.burst
       IN /\ last.ret.res.RetryAfter = -1 <=> last.ret.res.Allowed = last.n
          /\ last.ret.res.Allowed # last.n =>
                /\ last.ret.res.RetryAfter > 0
                /\ last.ret.res.RetryAfter = (allowAt - now) * DurationPerUnit

\* C13 witness: a request within the burst was denied and told to wait.
C13_Witness ==
    /\ last.op = "AllowN"
    /\ last.ret.ok
    /\ last.n <= last.limit.Burst
    /\ last.ret.res.Allowed = 0
    /\ last.ret.res.RetryAfter > 0

\* C14: with NewLimiter without options, the first Allow on a key without
\* stored state returns allowed 1 and remaining 9.
C14_ReadmeExample ==
    (/\ cfg = NewLimiter(defaultLimits, <<>>, redisPrefix)
     /\ last.op = "AllowN"
     /\ last.n = 1
     /\ last.fail = "ok"
     /\ last.pre = Nil)
    => (/\ last.ret.ok
        /\ last.ret.res.Allowed = 1
        /\ last.ret.res.Remaining = 9)

\* C20: for a limit with rate >= 1, burst >= 1 and period > 0, the period
\* that AllowN and AllowAtMost pass to the engine is positive and is the
\* period of the limit.
C20_PeriodPreserved ==
    (IsDecision /\ ValidLimit(last.limit)) =>
       /\ last.values.period > 0
       /\ last.values.period * UnitsPerCs = last.limit.Period

\* The reply of an allowN of m events on the key of the last call, under the
\* limit of the last call, at time t and on the state the last call left.
Probe(m, t) ==
    Exec("allowN", store[last.storeKey], Values(last.limit, m), t).reply

\* C16: in every Result, Remaining lies in 0..Burst and is the capacity
\* available at that instant: an allow_n of m events issued next at the same
\* instant is admitted for every m in 1..Remaining and denied for
\* m = Remaining + 1.
C16_RemainingIsCapacity ==
    (IsDecision /\ last.ret.ok) =>
       LET r == last.ret.res.Remaining
       IN /\ r \in 0..last.limit.Burst
          /\ \A m \in 1..r : Probe(m, now)[1] = m
          /\ Probe(r + 1, now)[1] = 0

C16_Witness ==
    /\ IsDecision
    /\ last.ret.ok
    /\ last.ret.res.Allowed >= 1
    /\ last.ret.res.Remaining >= 1
    /\ last.ret.res.Remaining < last.limit.Burst

\* C17: after an allow_n of n <= Burst events is denied with RetryAfter = d,
\* the same request with no call on the key in between is denied at every
\* time before now + d and admitted at now + d.
C17_RetryAfterExact ==
    (/\ last.op \in {"AllowN", "AllowNExplicit"}
     /\ last.ret.ok
     /\ last.ret.res.Allowed = 0
     /\ last.n <= last.limit.Burst) =>
       LET d == last.ret.res.RetryAfter \div DurationPerUnit
       IN /\ d * DurationPerUnit = last.ret.res.RetryAfter
          /\ \A t \in now..(now + d - 1) : Probe(last.n, t)[1] = 0
          /\ Probe(last.n, now + d)[1] = last.n

C17_Witness ==
    /\ last.op \in {"AllowN", "AllowNExplicit"}
    /\ last.ret.ok
    /\ last.ret.res.Allowed = 0
    /\ last.n < last.limit.Burst
    /\ last.ret.res.RetryAfter >= 2 * DurationPerUnit
    /\ last.ret.res.RetryAfter < last.ret.res.ResetAfter

\* C18: ResetAfter is never negative; with no admitted call in between, the
\* reset_after seen later is never larger than the one seen earlier, and once
\* Burst * (Period / Rate) has passed since the last admission it is zero and
\* remaining is Burst again.  Later observations are denied requests of
\* Burst + 1 events, which leave the state as it is.
C18_ResetAfterDecays ==
    (IsDecision /\ last.ret.ok /\ last.ret.res.Allowed >= 1) =>
       LET B == last.limit.Burst
           full == (B * last.limit.Period + last.limit.Rate - 1) \div last.limit.Rate
       IN /\ last.ret.res.ResetAfter >= 0
          /\ \A t \in now..(now + full - 1) :
                /\ Probe(B + 1, t)[4] >= 0
                /\ Probe(B + 1, t + 1)[4] <= Probe(B + 1, t)[4]
          /\ Probe(B + 1, now + full)[4] = 0
          /\ Probe(B + 1, now + full)[2] = B

\* C19: the store evicts a key only when its TAT is no longer in the future,
\* and at that moment every decision on the absent key gives the reply that
\* the decision on the evicted state would have given and leaves the same
\* bucket.
C19_ExpiryKeepsDecisions ==
    last.op = "Expire" =>
       /\ last.pre <= now
       /\ store[last.storeKey] = Nil
       /\ \A script \in {"allowN", "allowAtMost"} :
          \A l \in ExplicitLimits \cup {cfg.limit}, n \in 1..(MaxN + 1) :
             LET absent == Exec(script, Nil, Values(l, n), now)
                 kept == Exec(script, last.pre, Values(l, n), now)
             IN /\ absent.err = kept.err
                /\ absent.reply = kept.reply
                /\ \A m \in 1..(MaxN + 1) :
                      Exec("allowN", absent.tat, Values(l, m), now).reply
                         = Exec("allowN", kept.tat, Values(l, m), now).reply

C19_Witness ==
    /\ last.op = "Expire"
    /\ last.storeKey = StoreKey(Watched)
    /\ last.pre # Nil
    /\ last.pre < now
    /\ store[last.storeKey] = Nil

\* C11: when the script ran and its reply is not four numeric fields, AllowN
\* and AllowAtMost end in a failure and give no Result.
C11_MalformedReplyFails ==
    (IsDecision /\ last.fail \in Malformed /\ last.storeErr = "nil") =>
       /\ ~last.ret.ok
       /\ last.ret.err # "nil"

\* The TAT of the watched key after the first i transactions of serial are
\* executed one at a time, in that order, from the initial store.
RECURSIVE SerialTat(_)
SerialTat(i) ==
    IF i = 0 THEN InitialStore[StoreKey(Watched)]
    ELSE Run(serial[i].call, SerialTat(i - 1), serial[i].t).tat

\* C15: whatever the processes issue concurrently on one key, the stored TAT
\* and every result returned are those of executing the transactions one at
\* a time in the order the store ran them, and every transaction computed
\* from the TAT its predecessor in that order left (no lost update).
C15_Linearizable ==
    /\ store[StoreKey(Watched)] = SerialTat(Len(serial))
    /\ \A i \in 1..Len(serial) :
          /\ serial[i].read = SerialTat(i - 1)
          /\ serial[i].ret = Run(serial[i].call, SerialTat(i - 1), serial[i].t).ret

\* C15 witness: two decisions issued on the same TAT were both run and both
\* admitted; the second ran on the TAT the first had written.
C15_Witness ==
    \E i \in 1..Len(serial), j \in 1..Len(serial) :
       /\ i < j
       /\ serial[i].call.seen = serial[j].call.seen
       /\ serial[j].read # serial[j].call.seen
       /\ serial[i].ret.ok /\ serial[i].ret.res.Allowed >= 1
       /\ serial[j].ret.ok /\ serial[j].ret.res.Allowed >= 1

====
